---- MODULE Spec2Model ----
(***************************************************************************)
(* A model of the cron expression parser of vitaminniy/go-cron (package    *)
(* cron).  Strings are sequences of one-character strings, []uint8 slices  *)
(* are sequences of integers in 0..255, and a Go error is the chain of     *)
(* messages that fmt.Errorf("...: %w") builds, outermost first; the nil    *)
(* error is the empty chain.                                               *)
(***************************************************************************)
EXTENDS Integers, Sequences, FiniteSets, TLC

VARIABLES fn, line, args, min, max, val, vals, e, err, outcome, wrap

vars == <<fn, line, args, min, max, val, vals, e, err, outcome, wrap>>

-----------------------------------------------------------------------------
(* Program constants.                                                      *)

numExressionArgs == 6

minutesMin == 0
minutesMax == 59
hoursMin == 0
hoursMax == 23
daysInMonthMin == 1
daysInMonthMax == 31
monthsMin == 1
monthsMax == 12
weekdaysMin == 0
weekdaysMax == 6

(* The width of uint8 and of strconv.ParseUint(s, 10, 8).                  *)
Uint8Mod == 256

-----------------------------------------------------------------------------
(* Strings.                                                                *)

Digits == <<"0", "1", "2", "3", "4", "5", "6", "7", "8", "9">>

IsDigit(c) == \E i \in 1..10 : Digits[i] = c

DigitVal(c) == (CHOOSE i \in 1..10 : Digits[i] = c) - 1

(* strings.Index(s, sep) for a one-character sep: 0 when absent.           *)
RECURSIVE IndexFrom(_, _, _)
IndexFrom(s, c, i) ==
    IF i > Len(s) THEN 0
    ELSE IF s[i] = c THEN i
    ELSE IndexFrom(s, c, i + 1)

(* strings.SplitN(s, sep, n) for a one-character sep and n > 0: at most n  *)
(* parts, the last one being the unsplit remainder.                        *)
RECURSIVE SplitN(_, _, _)
SplitN(s, sep, n) ==
    LET i == IndexFrom(s, sep, 1) IN
    IF n <= 1 \/ i = 0 THEN <<s>>
    ELSE <<SubSeq(s, 1, i - 1)>> \o SplitN(SubSeq(s, i + 1, Len(s)), sep, n - 1)

(* strings.Split(s, sep): SplitN with no limit.                            *)
Split(s, sep) == SplitN(s, sep, Len(s) + 1)

(* strconv.ParseUint(s, 10, 8): the digits are folded left to right; an    *)
(* empty string, a character that is no digit (signs included) or a value  *)
(* above 255 is an error.                                                  *)
RECURSIVE ParseUintFrom(_, _, _)
ParseUintFrom(s, i, n) ==
    IF i > Len(s) THEN [ok |-> TRUE, v |-> n]
    ELSE IF ~IsDigit(s[i]) THEN [ok |-> FALSE, v |-> 0]
    ELSE IF n * 10 + DigitVal(s[i]) > Uint8Mod - 1 THEN [ok |-> FALSE, v |-> Uint8Mod - 1]
    ELSE ParseUintFrom(s, i + 1, n * 10 + DigitVal(s[i]))

ParseUint(s) ==
    IF s = <<>> THEN [ok |-> FALSE, v |-> 0] ELSE ParseUintFrom(s, 1, 0)

-----------------------------------------------------------------------------
(* Results.  A field parser returns ([]uint8, error); wrap records that a  *)
(* uint8 addition of the call overflowed, hang that its loop cannot end.   *)

NoErr == <<>>

Ok(vs) == [vals |-> vs, err |-> NoErr, wrap |-> FALSE, hang |-> FALSE]

Fail(chain) == [vals |-> <<>>, err |-> chain, wrap |-> FALSE, hang |-> FALSE]

Wrapf(msg, chain) == <<msg>> \o chain

(* parseIntegral without the check against max.                            *)
parseIntegralNoMax(s, lo, hi) ==
    LET p == ParseUint(s) IN
    IF ~p.ok THEN [v |-> 0, err |-> <<"could not parse value", "strconv">>]
    ELSE IF p.v < lo THEN [v |-> 0, err |-> <<"value must be in range">>]
    ELSE [v |-> p.v, err |-> NoErr]

(* func parseIntegral(s string, min, max uint8) (uint8, error)             *)
parseIntegral(s, lo, hi) ==
    LET p == ParseUint(s) IN
    IF ~p.ok THEN [v |-> 0, err |-> <<"could not parse value", "strconv">>]
    ELSE IF p.v < lo \/ p.v > hi THEN [v |-> 0, err |-> <<"value must be in range">>]
    ELSE [v |-> p.v, err |-> NoErr]

(* for i := from; i <= to; i++ { result = append(result, i) } over uint8.  *)
RECURSIVE LoopInclusive(_, _, _, _)
LoopInclusive(i, to, acc, w) ==
    IF ~(i <= to) THEN [vals |-> acc, err |-> NoErr, wrap |-> w, hang |-> FALSE]
    ELSE IF Len(acc) >= Uint8Mod THEN [vals |-> acc, err |-> NoErr, wrap |-> w, hang |-> TRUE]
    ELSE LoopInclusive((i + 1) % Uint8Mod, to, Append(acc, i), w \/ i + 1 >= Uint8Mod)

(* The interval loop with i <= max in place of i < max.                    *)
RECURSIVE LoopEveryInclusive(_, _, _, _, _)
LoopEveryInclusive(i, hi, every, acc, w) ==
    IF ~(i <= hi) THEN [vals |-> acc, err |-> NoErr, wrap |-> w, hang |-> FALSE]
    ELSE IF Len(acc) >= Uint8Mod THEN [vals |-> acc, err |-> NoErr, wrap |-> w, hang |-> TRUE]
    ELSE LoopEveryInclusive((i + every) % Uint8Mod, hi, every, Append(acc, i),
                            w \/ i + every >= Uint8Mod)

(* for i := from; i < max; i += every { result = append(result, i) }.      *)
RECURSIVE LoopEvery(_, _, _, _, _)
LoopEvery(i, hi, every, acc, w) ==
    IF ~(i < hi) THEN [vals |-> acc, err |-> NoErr, wrap |-> w, hang |-> FALSE]
    ELSE IF Len(acc) >= Uint8Mod THEN [vals |-> acc, err |-> NoErr, wrap |-> w, hang |-> TRUE]
    ELSE LoopEvery((i + every) % Uint8Mod, hi, every, Append(acc, i),
                   w \/ i + every >= Uint8Mod)


(* parseRange with first > end in place of first >= end.                   *)
parseRangeAllowsPoint(rnge, lo, hi) ==
    IF Len(rnge) # 2 THEN Fail(<<"expected range">>)
    ELSE
      LET first == parseIntegral(rnge[1], lo, hi)
          end == parseIntegral(rnge[2], lo, hi)
      IN  IF first.err # NoErr THEN Fail(Wrapf("invalid begin of range", first.err))
          ELSE IF end.err # NoErr THEN Fail(Wrapf("invalid end of range", end.err))
          ELSE IF first.v > end.v THEN Fail(<<"invalid range">>)
          ELSE LoopInclusive(first.v, end.v, <<>>, FALSE)

(* func parseRange(rnge []string, min, max uint8) ([]uint8, error)         *)
parseRange(rnge, lo, hi) ==
    IF Len(rnge) # 2 THEN Fail(<<"expected range">>)
    ELSE
      LET first == parseIntegral(rnge[1], lo, hi)
          end == parseIntegral(rnge[2], lo, hi)
      IN  IF first.err # NoErr THEN Fail(Wrapf("invalid begin of range", first.err))
          ELSE IF end.err # NoErr THEN Fail(Wrapf("invalid end of range", end.err))
          ELSE IF first.v >= end.v THEN Fail(<<"invalid range">>)
          ELSE LoopInclusive(first.v, end.v, <<>>, FALSE)

(* The loop of parseSteps without the membership check on unique.          *)
RECURSIVE StepsFromNoUnique(_, _, _, _, _, _)
StepsFromNoUnique(steps, k, lo, hi, unique, result) ==
    IF k > Len(steps) THEN Ok(result)
    ELSE IF steps[k] = <<>> THEN Fail(<<"expected step but got an empty string">>)
    ELSE
      LET step == parseIntegral(steps[k], lo, hi) IN
      IF step.err # NoErr THEN Fail(Wrapf("invalid step", step.err))
      ELSE StepsFromNoUnique(steps, k + 1, lo, hi, unique \cup {step.v},
                             Append(result, step.v))

(* The loop of parseSteps from the k-th step on: unique is the map of the  *)
(* values seen, result the slice built so far.                             *)
RECURSIVE StepsFrom(_, _, _, _, _, _)
StepsFrom(steps, k, lo, hi, unique, result) ==
    IF k > Len(steps) THEN Ok(result)
    ELSE IF steps[k] = <<>> THEN Fail(<<"expected step but got an empty string">>)
    ELSE
      LET step == parseIntegral(steps[k], lo, hi) IN
      IF step.err # NoErr THEN Fail(Wrapf("invalid step", step.err))
      ELSE IF step.v \notin unique
        THEN StepsFrom(steps, k + 1, lo, hi, unique \cup {step.v}, Append(result, step.v))
        ELSE StepsFrom(steps, k + 1, lo, hi, unique, result)

(* func parseSteps(steps []string, min, max uint8) ([]uint8, error)        *)
parseSteps(steps, lo, hi) == StepsFrom(steps, 1, lo, hi, {}, <<>>)

(* The starting point of parseIntervals: 0 for "*", else the parsed value. *)
intervalStart(s, lo, hi) ==
    IF s # <<"*">> THEN parseIntegral(s, lo, hi) ELSE [v |-> 0, err |-> NoErr]

(* func parseIntervals(intervals []string, min, max uint8) ([]uint8, error) *)
parseIntervals(intervals, lo, hi) ==
    IF Len(intervals) # 2 THEN Fail(<<"malformed intervals arg">>)
    ELSE
      LET start == intervalStart(intervals[1], lo, hi)
          every == parseIntegral(intervals[2], lo, hi)
      IN  IF start.err # NoErr THEN Fail(Wrapf("could not parse starting point", start.err))
          ELSE IF every.err # NoErr
            THEN Fail(Wrapf("could not parse repeated interval", every.err))
          ELSE IF every.v = 0 THEN Fail(<<"repeated interval must be greater than 0">>)
          ELSE IF ((hi + 1) % Uint8Mod) % every.v # 0
            THEN Fail(<<"invalid repeated interval">>)
          ELSE LoopEvery((start.v + lo) % Uint8Mod, hi, every.v, <<>>,
                         start.v + lo >= Uint8Mod)

(* parseTime with the interval separator looked for before the others.    *)
parseTimeIntervalsFirst(arg, lo, hi) ==
    IF arg = <<>> THEN Fail(<<"expected arg but got empty string">>)
    ELSE IF arg = <<"*">> THEN LoopInclusive(lo, hi, <<>>, FALSE)
    ELSE IF Len(Split(arg, "/")) > 1 THEN parseIntervals(Split(arg, "/"), lo, hi)
    ELSE IF Len(Split(arg, "-")) > 1 THEN parseRange(Split(arg, "-"), lo, hi)
    ELSE IF Len(Split(arg, ",")) > 1 THEN parseSteps(Split(arg, ","), lo, hi)
    ELSE
      LET exact == parseIntegral(arg, lo, hi) IN
      IF exact.err # NoErr THEN Fail(Wrapf("could not parse exact value", exact.err))
      ELSE Ok(<<exact.v>>)

(* func parseTime(arg string, min, max uint8) ([]uint8, error)             *)
parseTime(arg, lo, hi) ==
    IF arg = <<>> THEN Fail(<<"expected arg but got empty string">>)
    ELSE IF arg = <<"*">> THEN LoopInclusive(lo, hi, <<>>, FALSE)
    ELSE IF Len(Split(arg, "-")) > 1 THEN parseRange(Split(arg, "-"), lo, hi)
    ELSE IF Len(Split(arg, ",")) > 1 THEN parseSteps(Split(arg, ","), lo, hi)
    ELSE IF Len(Split(arg, "/")) > 1 THEN parseIntervals(Split(arg, "/"), lo, hi)
    ELSE
      LET exact == parseIntegral(arg, lo, hi) IN
      IF exact.err # NoErr THEN Fail(Wrapf("could not parse exact value", exact.err))
      ELSE Ok(<<exact.v>>)

-----------------------------------------------------------------------------
(* type Expression struct: its zero value.                                 *)
Expression ==
    [Minutes |-> <<>>, Hours |-> <<>>, MonthDays |-> <<>>, Months |-> <<>>,
     WeekDays |-> <<>>, Command |-> <<>>]

(* return e, err                                                           *)
Return(ex, chain, w) == [e |-> ex, err |-> chain, outcome |-> "returned", wrap |-> w]

(* args[k] with k >= len(args): the runtime panics, nothing is returned.   *)
IndexPanic(w) == [e |-> Expression, err |-> NoErr, outcome |-> "panic", wrap |-> w]

(* A field loop that cannot end: ParseExpression never returns.            *)
Diverge(w) == [e |-> Expression, err |-> NoErr, outcome |-> "hang", wrap |-> w]

(* ParseExpression from the check of args[5] on.                           *)
ParseExpressionCommand(a, ex, w) ==
    IF Len(a) < 6 THEN IndexPanic(w)
    ELSE IF a[6] = <<>> THEN Return(ex, <<"expected command but got an empty string">>, w)
    ELSE Return([ex EXCEPT !.Command = a[6]], NoErr, w)

(* ParseExpression from e.WeekDays on, with the command checked first.     *)
ParseExpressionCommandFirst(a, ex, w) ==
    IF Len(a) < 5 THEN IndexPanic(w)
    ELSE IF Len(a) < 6 THEN IndexPanic(w)
    ELSE IF a[6] = <<>> THEN Return(ex, <<"expected command but got an empty string">>, w)
    ELSE LET r == parseTime(a[5], weekdaysMin, weekdaysMax)
             ex1 == [ex EXCEPT !.WeekDays = r.vals]
         IN  IF r.hang THEN Diverge(w \/ r.wrap)
             ELSE IF r.err # NoErr
               THEN Return(ex1, Wrapf("invalid weekdays arg", r.err), w \/ r.wrap)
             ELSE Return([ex1 EXCEPT !.Command = a[6]], NoErr, w \/ r.wrap)

(* ParseExpression from e.WeekDays on.                                     *)
ParseExpressionWeekDays(a, ex, w) ==
    IF Len(a) < 5 THEN IndexPanic(w)
    ELSE LET r == parseTime(a[5], weekdaysMin, weekdaysMax)
             ex1 == [ex EXCEPT !.WeekDays = r.vals]
         IN  IF r.hang THEN Diverge(w \/ r.wrap)
             ELSE IF r.err # NoErr
               THEN Return(ex1, Wrapf("invalid weekdays arg", r.err), w \/ r.wrap)
             ELSE ParseExpressionCommand(a, ex1, w \/ r.wrap)

(* ParseExpression from e.Months on.                                       *)
ParseExpressionMonths(a, ex, w) ==
    IF Len(a) < 4 THEN IndexPanic(w)
    ELSE LET r == parseTime(a[4], monthsMin, monthsMax)
             ex1 == [ex EXCEPT !.Months = r.vals]
         IN  IF r.hang THEN Diverge(w \/ r.wrap)
             ELSE IF r.err # NoErr
               THEN Return(ex1, Wrapf("invalid month arg", r.err), w \/ r.wrap)
             ELSE ParseExpressionWeekDays(a, ex1, w \/ r.wrap)

(* ParseExpression from e.MonthDays on.                                    *)
ParseExpressionMonthDays(a, ex, w) ==
    IF Len(a) < 3 THEN IndexPanic(w)
    ELSE LET r == parseTime(a[3], daysInMonthMin, daysInMonthMax)
             ex1 == [ex EXCEPT !.MonthDays = r.vals]
         IN  IF r.hang THEN Diverge(w \/ r.wrap)
             ELSE IF r.err # NoErr
               THEN Return(ex1, Wrapf("invalid monthdays arg", r.err), w \/ r.wrap)
             ELSE ParseExpressionMonths(a, ex1, w \/ r.wrap)

(* ParseExpression from e.Hours on.                                        *)
ParseExpressionHours(a, ex, w) ==
    IF Len(a) < 2 THEN IndexPanic(w)
    ELSE LET r == parseTime(a[2], hoursMin, hoursMax)
             ex1 == [ex EXCEPT !.Hours = r.vals]
         IN  IF r.hang THEN Diverge(w \/ r.wrap)
             ELSE IF r.err # NoErr
               THEN Return(ex1, Wrapf("invalid hours arg", r.err), w \/ r.wrap)
             ELSE ParseExpressionMonthDays(a, ex1, w \/ r.wrap)

(* ParseExpression from e.Minutes on.                                      *)
ParseExpressionMinutes(a, ex, w) ==
    IF Len(a) < 1 THEN IndexPanic(w)
    ELSE LET r == parseTime(a[1], minutesMin, minutesMax)
             ex1 == [ex EXCEPT !.Minutes = r.vals]
         IN  IF r.hang THEN Diverge(w \/ r.wrap)
             ELSE IF r.err # NoErr
               THEN Return(ex1, Wrapf("invalid minutes arg", r.err), w \/ r.wrap)
             ELSE ParseExpressionHours(a, ex1, w \/ r.wrap)

(* args := strings.Split(line, " "): the command is split too.             *)
SplitArgsEverySpace(ln) == Split(ln, " ")

(* args := strings.SplitN(line, " ", numExressionArgs)                     *)
SplitArgs(ln) == SplitN(ln, " ", numExressionArgs)

(* func ParseExpression(line string) (e Expression, err error)             *)
ParseExpression(ln) == ParseExpressionMinutes(SplitArgs(ln), Expression, FALSE)

-----------------------------------------------------------------------------
(* Inputs.                                                                 *)

(* strconv.Itoa for n >= 0.                                                *)
RECURSIVE Itoa(_)
Itoa(n) == IF n < 10 THEN <<Digits[n + 1]>> ELSE Itoa(n \div 10) \o <<Digits[(n % 10) + 1]>>

(* strings.Join(parts, sep) for a one-character sep.                       *)
RECURSIVE Join(_, _)
Join(parts, sep) ==
    IF Len(parts) = 0 THEN <<>>
    ELSE IF Len(parts) = 1 THEN parts[1]
    ELSE parts[1] \o <<sep>> \o Join(Tail(parts), sep)

(* The five canonical field bounds, in the order ParseExpression uses them. *)
FieldBounds ==
    << [min |-> minutesMin, max |-> minutesMax],
       [min |-> hoursMin, max |-> hoursMax],
       [min |-> daysInMonthMin, max |-> daysInMonthMax],
       [min |-> monthsMin, max |-> monthsMax],
       [min |-> weekdaysMin, max |-> weekdaysMax] >>

Bounds == {FieldBounds[i] : i \in 1..5}

(* Bounds of the input sets.                                               *)
MaxOver == 2
MaxListLen == 3
MaxTokParts == 3
MaxCmdLen == 1

(* All sequences of exactly k elements of S.                               *)
RECURSIVE SeqsOfLen(_, _)
SeqsOfLen(S, k) ==
    IF k = 0 THEN {<<>>} ELSE {Append(q, x) : q \in SeqsOfLen(S, k - 1), x \in S}

SeqsUpTo(S, k) == UNION {SeqsOfLen(S, j) : j \in 0..k}

(* The numerals of 0 .. max + MaxOver: every value of the bound and some   *)
(* above it.                                                               *)
Numerals(b) == {Itoa(n) : n \in 0..(b.max + MaxOver)}

BigNumerals == {Itoa(255), Itoa(256), Itoa(300)}

PaddedNumerals == {<<"0", "0">>, <<"0", "5">>, <<"0", "0", "7">>}

Junk == {<<>>, <<"*">>, <<"x">>, <<"+", "1">>, <<"-", "1">>, <<"1", "x">>}

IntegralInputs(b) == Numerals(b) \cup BigNumerals \cup PaddedNumerals \cup Junk

SmallAtoms == {<<>>, <<"*">>, <<"x">>, <<"0">>, <<"1">>, <<"0", "5">>, Itoa(256)}

RangeInputs(b) ==
    {<<x, y>> : x \in Numerals(b), y \in Numerals(b)}
      \cup SeqsUpTo(SmallAtoms, 3)

IntervalInputs(b) ==
    {<<s, n>> : s \in {<<"*">>} \cup Numerals(b), n \in Numerals(b) \cup BigNumerals}
      \cup SeqsUpTo(SmallAtoms, 3)

StepAtoms == {<<>>, <<"x">>, <<"0">>, <<"0", "0">>, <<"1">>, <<"7">>}

StepInputs == SeqsUpTo(StepAtoms, MaxListLen)

Separators == {"-", ",", "/"}

TokAtoms == {<<>>, <<"*">>, <<"1">>, <<"5">>}

(* Field tokens of k atoms joined by separators, mixed kinds included.     *)
RECURSIVE TokensOfParts(_)
TokensOfParts(k) ==
    IF k = 1 THEN TokAtoms
    ELSE {t \o <<sep>> \o x : t \in TokensOfParts(k - 1), sep \in Separators, x \in TokAtoms}

TestTokens ==
    { Join(<<Itoa(1), Itoa(10)>>, "-"),
      Join(<<Itoa(15), Itoa(30), Itoa(45), <<"0", "0">> >>, ","),
      Join(<<<<"*">>, Itoa(15)>>, "/"),
      Join(<<Itoa(1), Itoa(15)>>, "/"),
      Join(<<<<"*">>, Itoa(17)>>, "/"),
      Join(<<Join(<<<<"*">>, Itoa(5)>>, "/"), Itoa(10)>>, ","),
      <<"1", "-", "5", "/", "2">>,
      <<"1", ",", "2", "-", "3">> }

(* Interval tokens s/n with the explicit start s at or near the max.       *)
NearMaxIntervals(b) ==
    {Itoa(s) \o <<"/">> \o Itoa(n) : s \in (b.max - 2)..b.max, n \in 1..2}

TimeInputs(b) ==
    UNION {TokensOfParts(k) : k \in 1..MaxTokParts} \cup Numerals(b) \cup TestTokens
      \cup NearMaxIntervals(b)

FieldToks == {<<>>, <<"*">>, <<"7">>, <<"*", "/", "5">>}

Commands == SeqsUpTo({"c", " "}, MaxCmdLen) \cup {<<"e", "c", "h", "o", " ", "h", "i">>}

(* One token of every form a field can take.                               *)
FormToks ==
    { <<"5">>, <<"1", "-", "3">>, <<"5", "-", "6">>, <<"1", ",", "2">>,
      <<"3", ",", "1", ",", "3">>, <<"*", "/", "1">>, <<"*", "/", "2">>,
      <<"0", "/", "1">>, <<"1", "/", "2">>, <<"6", "/", "1">>, <<"1", "-", "5", "/", "2">> }

(* Lines of one to six parts over FieldToks, and six-part lines with one   *)
(* field of FormToks among wildcards.                                      *)
Lines ==
    {Join(q, " ") : q \in UNION {SeqsOfLen(FieldToks, k) : k \in 1..5}}
      \cup {Join(Append(q, c), " ") : q \in SeqsOfLen(FieldToks, 5), c \in Commands}
      \cup {Join([k \in 1..6 |-> IF k = p THEN t ELSE IF k = 6 THEN <<"c", " ", "d">> ELSE <<"*">>], " ") :
               p \in 1..5, t \in FormToks}

-----------------------------------------------------------------------------
(* The program: one call of a parser on one input.                         *)

Init ==
    /\ fn = "none"
    /\ line = <<>>
    /\ args = <<>>
    /\ min = 0
    /\ max = 0
    /\ val = 0
    /\ vals = <<>>
    /\ e = Expression
    /\ err = NoErr
    /\ outcome = "none"
    /\ wrap = FALSE

Outcome(r) == IF r.hang THEN "hang" ELSE "returned"

CallParseIntegral(s, b) ==
    LET r == parseIntegral(s, b.min, b.max) IN
    /\ fn = "none"
    /\ fn' = "parseIntegral"
    /\ line' = s
    /\ min' = b.min
    /\ max' = b.max
    /\ val' = r.v
    /\ err' = r.err
    /\ outcome' = "returned"
    /\ UNCHANGED <<args, vals, e, wrap>>

FieldCall(name, r, b) ==
    /\ fn = "none"
    /\ fn' = name
    /\ min' = b.min
    /\ max' = b.max
    /\ vals' = r.vals
    /\ err' = r.err
    /\ wrap' = r.wrap
    /\ outcome' = Outcome(r)
    /\ UNCHANGED <<val, e>>

CallParseRange(rnge, b) ==
    /\ FieldCall("parseRange", parseRange(rnge, b.min, b.max), b)
    /\ args' = rnge
    /\ UNCHANGED line

CallParseSteps(steps, b) ==
    /\ FieldCall("parseSteps", parseSteps(steps, b.min, b.max), b)
    /\ args' = steps
    /\ UNCHANGED line

CallParseIntervals(intervals, b) ==
    /\ FieldCall("parseIntervals", parseIntervals(intervals, b.min, b.max), b)
    /\ args' = intervals
    /\ UNCHANGED line

CallParseTime(arg, b) ==
    /\ FieldCall("parseTime", parseTime(arg, b.min, b.max), b)
    /\ line' = arg
    /\ UNCHANGED args

CallParseExpression(ln) ==
    LET r == ParseExpression(ln) IN
    /\ fn = "none"
    /\ fn' = "ParseExpression"
    /\ line' = ln
    /\ args' = SplitArgs(ln)
    /\ e' = r.e
    /\ err' = r.err
    /\ outcome' = r.outcome
    /\ wrap' = r.wrap
    /\ UNCHANGED <<min, max, val, vals>>

(* main parses one argument and exits: a call starts only from Init.       *)
Idle == fn = "none"

Next ==
    \/ Idle /\ \E b \in Bounds : \E s \in IntegralInputs(b) : CallParseIntegral(s, b)
    \/ Idle /\ \E b \in Bounds : \E rnge \in RangeInputs(b) : CallParseRange(rnge, b)
    \/ Idle /\ \E b \in Bounds : \E steps \in StepInputs : CallParseSteps(steps, b)
    \/ Idle /\ \E b \in Bounds : \E intervals \in IntervalInputs(b) :
                 CallParseIntervals(intervals, b)
    \/ Idle /\ \E b \in Bounds : \E arg \in TimeInputs(b) : CallParseTime(arg, b)
    \/ Idle /\ \E ln \in Lines : CallParseExpression(ln)

Spec == Init /\ [][Next]_vars

-----------------------------------------------------------------------------
(* Vocabulary of the properties.                                           *)

Returned == outcome = "returned"

Succeeded == Returned /\ err = NoErr

Failed == Returned /\ err # NoErr

InBound(vs, lo, hi) == \A i \in 1..Len(vs) : lo <= vs[i] /\ vs[i] <= hi

(* The decimal numerals of 0..300, as written without padding.             *)
Shown == [n \in 0..300 |-> Itoa(n)]

Contains(s, c) == \E i \in 1..Len(s) : s[i] = c

(* The number of parts of a line on space characters.                      *)
SpaceParts(s) == Cardinality({i \in 1..Len(s) : s[i] = " "}) + 1

-----------------------------------------------------------------------------
(* C1: whenever ParseExpression returns without error, every value of      *)
(* Minutes lies in [0,59], of Hours in [0,23], of MonthDays in [1,31], of  *)
(* Months in [1,12] and of WeekDays in [0,6], and Command is non-empty;    *)
(* and whenever a field parser succeeds on a canonical bound, its values   *)
(* lie in the bound and no 8-bit counter of its loops wrapped around.      *)
C1_FieldsWithinBounds ==
    /\ (fn = "ParseExpression" /\ Succeeded) =>
          /\ InBound(e.Minutes, minutesMin, minutesMax)
          /\ InBound(e.Hours, hoursMin, hoursMax)
          /\ InBound(e.MonthDays, daysInMonthMin, daysInMonthMax)
          /\ InBound(e.Months, monthsMin, monthsMax)
          /\ InBound(e.WeekDays, weekdaysMin, weekdaysMax)
          /\ e.Command # <<>>
          /\ ~wrap
    /\ (fn \in {"parseTime", "parseRange", "parseSteps", "parseIntervals"} /\ outcome # "none") =>
          /\ outcome = "returned"
          /\ ~wrap
          /\ InBound(vals, min, max)
    /\ fn = "ParseExpression" => outcome # "hang" /\ ~wrap

(* A successful line whose minutes are an interval with an explicit start. *)
C1_Witness ==
    /\ fn = "ParseExpression" /\ Succeeded
    /\ args[1] = <<"1", "/", "2">>
    /\ Len(e.Minutes) > 1
    /\ e.Command = <<"c", " ", "d">>

(* C2 as claimed: a line of fewer than 6 parts makes ParseExpression       *)
(* return an error to its caller and never terminate abnormally.           *)
C2_ShortLineReturnsError ==
    (fn = "ParseExpression" /\ SpaceParts(line) < numExressionArgs) => Failed

-----------------------------------------------------------------------------
(* lo, lo + n, lo + 2n, ... for all terms strictly below hi.               *)
Progression(lo, n, hi) ==
    LET count == IF lo >= hi THEN 0 ELSE ((hi - 1 - lo) \div n) + 1
    IN  [k \in 1..count |-> lo + (k - 1) * n]

(* The call parses the interval token "*" "/" n.                           *)
IsEvery(n) ==
    \/ fn = "parseIntervals" /\ args = <<<<"*">>, Shown[n]>>
    \/ fn = "parseTime" /\ line = <<"*", "/">> \o Shown[n]

(* C3 as claimed: every "*" "/" n with n > 0 and (max+1) % n = 0 succeeds  *)
(* with min, min+n, ... strictly below max; every n that does not divide   *)
(* max+1 is rejected; n = 0 is rejected.                                   *)
C3_EveryDivisorSucceeds ==
    \A n \in 0..300 : IsEvery(n) =>
        /\ (n > 0 /\ (max + 1) % n = 0) => Succeeded /\ vals = Progression(min, n, max)
        /\ (n > 0 /\ (max + 1) % n # 0) => Failed
        /\ n = 0 => Failed

(* C3, amended: the step must also lie within [min,max]; in particular     *)
(* n = max+1, which divides max+1, is rejected.                            *)
C3_EveryDivisorWithinBound ==
    \A n \in 0..300 : IsEvery(n) =>
        /\ (n > 0 /\ min <= n /\ n <= max /\ (max + 1) % n = 0) =>
              Succeeded /\ vals = Progression(min, n, max)
        /\ (n > 0 /\ (max + 1) % n # 0) => Failed
        /\ n = 0 => Failed
        /\ (n < min \/ n > max) => Failed
        /\ Succeeded => \A i \in 1..Len(vals) : vals[i] < max

(* Every 5 minutes: 0, 5, ..., 55.                                         *)
C3_Witness ==
    /\ fn = "parseIntervals" /\ IsEvery(5) /\ Succeeded
    /\ min = minutesMin /\ max = minutesMax
    /\ vals = <<0, 5, 10, 15, 20, 25, 30, 35, 40, 45, 50, 55>>

(* C4 as claimed: the token with the start written as the bound's min      *)
(* fails or succeeds as the token with the wildcard start does, and with   *)
(* the same sequence.                                                      *)
C4_WildcardStartIsMin ==
    (fn = "parseIntervals" /\ Returned /\ Len(args) = 2 /\ args[1] = Shown[min]) =>
        LET wild == parseIntervals(<<<<"*">>, args[2]>>, min, max)
        IN  /\ (err = NoErr) <=> (wild.err = NoErr)
            /\ vals = wild.vals

(* C5: a range a-b with min <= a < b <= max yields exactly a, a+1, ..., b; *)
(* a >= b is rejected; an endpoint outside [min,max] is rejected; a token  *)
(* that does not split into exactly two parts on "-" is rejected.          *)
C5_RangeInclusive ==
    /\ \A a \in 0..300 :
         (fn = "parseRange" /\ Len(args) = 2 /\ args[1] = Shown[a]) =>
           \A b \in 0..300 : args[2] = Shown[b] =>
             /\ (min <= a /\ a < b /\ b <= max) =>
                   /\ Succeeded
                   /\ Len(vals) = b - a + 1
                   /\ \A k \in 1..Len(vals) : vals[k] = a + k - 1
             /\ a >= b => Failed
             /\ (a < min \/ a > max \/ b < min \/ b > max) => Failed
    /\ (fn = "parseRange" /\ Len(args) # 2) => Failed
    /\ (fn = "parseTime" /\ Cardinality({i \in 1..Len(line) : line[i] = "-"}) > 1) => Failed

(* The range 1-10 of minutes.                                              *)
C5_Witness ==
    /\ fn = "parseRange" /\ Succeeded
    /\ args = <<Shown[1], Shown[10]>>
    /\ min = minutesMin /\ max = minutesMax
    /\ vals = <<1, 2, 3, 4, 5, 6, 7, 8, 9, 10>>

-----------------------------------------------------------------------------
DigitSet == {Digits[i] : i \in 1..10}

(* A non-empty string of decimal digits, and the number it writes.         *)
IsInteger(s) == s # <<>> /\ \A i \in 1..Len(s) : s[i] \in DigitSet

RECURSIVE Pow10(_)
Pow10(k) == IF k = 0 THEN 1 ELSE 10 * Pow10(k - 1)

RECURSIVE SumTo(_, _)
SumTo(f, k) == IF k = 0 THEN 0 ELSE f[k] + SumTo(f, k - 1)

NumberOf(s) ==
    SumTo([i \in 1..Len(s) |-> DigitVal(s[i]) * Pow10(Len(s) - i)], Len(s))

(* The position of the first token of the list that writes the value x.    *)
FirstAt(toks, x) ==
    CHOOSE k \in 1..Len(toks) :
        /\ NumberOf(toks[k]) = x
        /\ \A j \in 1..(k - 1) : NumberOf(toks[j]) # x

(* C6: a comma list whose tokens are all non-empty integers within the     *)
(* bound yields a sequence with no repeated value, holding exactly the     *)
(* values of the list, ordered by the first occurrence of each value; a    *)
(* list with an empty, non-integer or out-of-bound token is rejected.      *)
C6_StepsFirstOccurrence ==
    fn = "parseSteps" =>
      LET wellFormed ==
            \A k \in 1..Len(args) :
                /\ IsInteger(args[k])
                /\ min <= NumberOf(args[k])
                /\ NumberOf(args[k]) <= max
      IN  /\ wellFormed =>
                /\ Succeeded
                /\ \A i, j \in 1..Len(vals) : i # j => vals[i] # vals[j]
                /\ {vals[i] : i \in 1..Len(vals)} = {NumberOf(args[k]) : k \in 1..Len(args)}
                /\ \A i, j \in 1..Len(vals) :
                       i < j => FirstAt(args, vals[i]) < FirstAt(args, vals[j])
          /\ ~wellFormed => Failed /\ vals = <<>>

(* A list with a repeated value, written in two ways, ahead of a new one.  *)
C6_Witness ==
    /\ fn = "parseSteps" /\ Succeeded
    /\ args = <<<<"1">>, <<"0", "0">>, <<"0">>>>
    /\ vals = <<1, 0>>

(* The kinds of separator a token contains.                                *)
SeparatorKinds(s) == {c \in Separators : Contains(s, c)}

RangeErrors ==
    {"expected range", "invalid begin of range", "invalid end of range", "invalid range"}

StepErrors == {"expected step but got an empty string", "invalid step"}

(* C7: a field token with more than one kind of separator among "-", ","   *)
(* and "/" is rejected and yields no sequence; the separators are looked   *)
(* for in the order "-", ",", "/", so the rejection comes from the range   *)
(* parser when the token has a "-" and from the list parser otherwise.     *)
C7_MixedSeparatorsRejected ==
    (fn = "parseTime" /\ Cardinality(SeparatorKinds(line)) > 1) =>
        /\ Failed
        /\ vals = <<>>
        /\ Head(err) \in (IF Contains(line, "-") THEN RangeErrors ELSE StepErrors)

(* The token 1-5/2 is rejected by the range parser at its end 5/2.         *)
C7_Witness ==
    /\ fn = "parseTime" /\ Failed
    /\ line = <<"1", "-", "5", "/", "2">>
    /\ Head(err) = "invalid end of range"

-----------------------------------------------------------------------------
(* The message ParseExpression wraps a failure of each field in, in the    *)
(* order of the fields.                                                    *)
FieldMessages ==
    << "invalid minutes arg", "invalid hours arg", "invalid monthdays arg",
       "invalid month arg", "invalid weekdays arg" >>

EmptyCommandMessage == "expected command but got an empty string"

(* The fields of a six-part line that the Field Dispatcher rejects.        *)
InvalidFields(a) ==
    {i \in 1..5 : parseTime(a[i], FieldBounds[i].min, FieldBounds[i].max).err # NoErr}

(* C8: on a six-part line the returned error names the earliest invalid    *)
(* field in the order minutes, hours, month-days, months, week-days, and   *)
(* the empty-command error is returned only if all five fields parsed.     *)
C8_FirstInvalidFieldNamed ==
    (fn = "ParseExpression" /\ SpaceParts(line) >= numExressionArgs) =>
      LET bad == InvalidFields(args) IN
      /\ Returned
      /\ bad # {} =>
            /\ Failed
            /\ \E i \in bad : (\A j \in bad : i <= j) /\ Head(err) = FieldMessages[i]
      /\ (Failed /\ Head(err) = EmptyCommandMessage) => bad = {}
      /\ (bad = {} /\ args[6] = <<>>) => Failed /\ Head(err) = EmptyCommandMessage
      /\ (bad = {} /\ args[6] # <<>>) => Succeeded

(* Hours and week-days are both invalid, the command is empty: the error   *)
(* names the hours.                                                        *)
C8_Witness ==
    /\ fn = "ParseExpression" /\ Failed
    /\ SpaceParts(line) >= numExressionArgs
    /\ InvalidFields(args) = {2, 5}
    /\ args[6] = <<>>
    /\ Head(err) = "invalid hours arg"

(* The index of the n-th space of s, 0 when s has fewer than n spaces.     *)
NthSpace(s, n) ==
    IF \E i \in 1..Len(s) : s[i] = " " /\ Cardinality({j \in 1..i : s[j] = " "}) = n
    THEN CHOOSE i \in 1..Len(s) : s[i] = " " /\ Cardinality({j \in 1..i : s[j] = " "}) = n
    ELSE 0

ExampleLine ==
    <<"*", "/", "5", " ", "*", " ", "*", " ", "*", " ", "*", " ", "e", "c", "h", "o", " ", "h", "i">>

(* C9: on success Command is exactly the remainder of the line after its   *)
(* fifth space, further spaces kept; the five field tokens and Command     *)
(* joined by single spaces give back the line; the example line gives      *)
(* Command "echo hi", the 12 minutes 0, 5, ..., 55 and full ranges for the *)
(* other fields.                                                           *)
C9_CommandIsRemainder ==
    (fn = "ParseExpression" /\ Succeeded) =>
        /\ NthSpace(line, 5) > 0
        /\ e.Command = SubSeq(line, NthSpace(line, 5) + 1, Len(line))
        /\ Len(args) = numExressionArgs
        /\ \A i \in 1..5 : ~Contains(args[i], " ")
        /\ args[1] \o <<" ">> \o args[2] \o <<" ">> \o args[3] \o <<" ">> \o args[4]
             \o <<" ">> \o args[5] \o <<" ">> \o e.Command = line
        /\ line = ExampleLine =>
              /\ e.Command = <<"e", "c", "h", "o", " ", "h", "i">>
              /\ e.Minutes = <<0, 5, 10, 15, 20, 25, 30, 35, 40, 45, 50, 55>>
              /\ e.Hours = [k \in 1..24 |-> k - 1]
              /\ e.MonthDays = [k \in 1..31 |-> k]
              /\ e.Months = [k \in 1..12 |-> k]
              /\ e.WeekDays = [k \in 1..7 |-> k - 1]

(* The example line, parsed.                                               *)
C9_Witness ==
    /\ fn = "ParseExpression" /\ Succeeded
    /\ line = ExampleLine
    /\ Len(e.Minutes) = 12
    /\ Contains(e.Command, " ")

(* C10 as claimed: when ParseExpression fails, the Expression handed back  *)
(* with the error has its five fields and its Command empty.               *)
C10_NothingReturnedOnFailure ==
    (fn = "ParseExpression" /\ Failed) => e = Expression


(* C11 as claimed: whenever the Field Dispatcher succeeds on a token for a *)
(* canonical bound the returned sequence is non-empty, also for an         *)
(* interval token s/n whose explicit start s has s + min >= max; and no    *)
(* successfully parsed Expression has an empty field.                      *)
C11_SuccessIsNonEmpty ==
    /\ (fn = "parseTime" /\ Succeeded) => vals # <<>>
    /\ (fn = "ParseExpression" /\ Succeeded) =>
          /\ e.Minutes # <<>>
          /\ e.Hours # <<>>
          /\ e.MonthDays # <<>>
          /\ e.Months # <<>>
          /\ e.WeekDays # <<>>

====
